---------------------------- MODULE Spec2Model ----------------------------
(***************************************************************************)
(* Model of release.py: the GitHub ROM release creator.  The script drives *)
(* the external client `gh` through subprocess calls; the model keeps the  *)
(* script's control state, its local variables and the list of the         *)
(* external-client invocations it has issued.                              *)
(*                                                                         *)
(* Strings are tuples of one-character strings, so that concatenation,     *)
(* suffix tests, decimal formatting and lexicographic comparison are       *)
(* computed and not assumed.                                                *)
(***************************************************************************)
EXTENDS Integers, Sequences, FiniteSets, TLC

VARIABLES
    pc,               \* position of the script
    ret,              \* where get_unique_tag returns to
    log,              \* external-client invocations that have ended, in order
    process,          \* the subprocess.Popen in flight, or NoProcess
    existing,         \* tags of the releases that exist remotely (gh release view)
    zip_files,        \* *.zip of the working directory, in glob order
    img_files,        \* *.img of the working directory, in glob order
    sha_files,        \* *.sha256sum of the working directory
    args,             \* the parsed command line
    action_choice,    \* interactive_mode: "1" create, "2" upload to existing
    releases,         \* interactive_mode: tags of fetch_recent_releases
    files_to_release, \* the upload plan
    tag,              \* the variable `tag` of the caller
    arg,              \* parameter `tag` of get_unique_tag
    version,          \* local `version` of get_unique_tag
    file_index,       \* 1-based position in the plan of the file being uploaded
    retry_count,      \* create_release_with_progress: retry_count
    attempt,          \* upload_to_existing_release: attempt
    exit_code,        \* what the orchestrator returned to its caller
    status,           \* exit status of the process, -1 while it runs
    total_uploaded,   \* the upload loops: total_uploaded, in MB
    reports,          \* the per-file completion lines printed, in order
    last_estimate,    \* create_release_with_progress: last_estimate, in
                      \* 1/240 MB
    percentage,       \* the percentage (in tenths) of the last progress line
                      \* of the file being uploaded, -1 before the first
    asked,            \* prompt states of the shell passed so far, in order
    inputs,           \* the answers that the last step read with input()
    h                 \* driver of the resolver runs (input, results, log
                      \* marks), of the planner runs (mode, tokens,
                      \* selection), of the notes runs (mode, given, notes)
                      \* and of the name runs (path, first, second)

vars == <<pc, ret, log, process, existing, zip_files, img_files, sha_files,
          args, action_choice, releases, files_to_release, tag, arg, version,
          file_index, retry_count, attempt, exit_code, status, total_uploaded,
          reports, last_estimate, percentage, asked, inputs, h>>

\* The variables the resolver get_unique_tag does not touch.
run_vars == <<process, zip_files, img_files, sha_files, args, action_choice,
              releases, files_to_release, file_index, retry_count, attempt,
              exit_code, status, total_uploaded, reports, last_estimate,
              percentage>>

----------------------------------------------------------------------------
(* Bounds *)

\* Largest n for which a tag T-v{n} may already exist remotely.
MaxVersion == 11

\* Most archives in the working directory.
MaxZips == 1

\* Most parts of a manual selector.
MaxParts == 1

\* Most releases listed by `gh release list`.
MaxReleases == 1

\* Most --notes flags on the command line.
MaxNotes == 1

\* Most archives in the working directory of a planner run.
MaxPlanZips == 2

\* Most parts of the manual selector of a planner run.
MaxPlanParts == 2

\* Most answers typed at the notes prompts, and most --notes flags, of a
\* notes run.
MaxNoteLines == 6

\* Longest archive name of a name run, without its extension.
MaxNameLen == 5

----------------------------------------------------------------------------
(* Strings *)

Digits == <<"0", "1", "2", "3", "4", "5", "6", "7", "8", "9">>

IsDigit(c) == \E i \in 1..10 : Digits[i] = c

\* Code point of a character (ASCII), as Python's str comparison uses it.
Ord(c) ==
    CASE c = "-" -> 45
      [] c = "." -> 46
      [] IsDigit(c) -> 47 + (CHOOSE i \in 1..10 : Digits[i] = c)
      [] c = "a" -> 97
      [] c = "b" -> 98
      [] c = "g" -> 103
      [] c = "h" -> 104
      [] c = "i" -> 105
      [] c = "m" -> 109
      [] c = "n" -> 110
      [] c = "p" -> 112
      [] c = "r" -> 114
      [] c = "s" -> 115
      [] c = "u" -> 117
      [] c = "v" -> 118
      [] c = "x" -> 120
      [] c = "z" -> 122
      [] OTHER -> 127

\* Python's str(n) for n >= 0, as used by the f-string {version}.
RECURSIVE Dec(_)
Dec(n) == IF n < 10 THEN <<Digits[n + 1]>>
          ELSE Dec(n \div 10) \o <<Digits[(n % 10) + 1]>>

\* Python's s < t on strings: lexicographic by code point, a proper prefix first.
RECURSIVE StrLess(_, _)
StrLess(s, t) ==
    IF t = <<>> THEN FALSE
    ELSE IF s = <<>> THEN TRUE
    ELSE IF Ord(Head(s)) # Ord(Head(t)) THEN Ord(Head(s)) < Ord(Head(t))
    ELSE StrLess(Tail(s), Tail(t))

\* Python's s.endswith(suffix).
EndsWith(s, suffix) ==
    /\ Len(s) >= Len(suffix)
    /\ SubSeq(s, Len(s) - Len(suffix) + 1, Len(s)) = suffix

\* f"{tag}-v{version}"
VersionedTag(t, n) == t \o <<"-", "v">> \o Dec(n)

----------------------------------------------------------------------------
(* Artifact scanner and selection planner *)

SuffixZip == <<".", "z", "i", "p">>
SuffixImg == <<".", "i", "m", "g">>
SuffixSha == <<".", "s", "h", "a", "2", "5", "6", "s", "u", "m">>

\* r-1-1-g.zip: an archive whose name carries the tag r-1-1.
TaggedZip == <<"r", "-", "1", "-", "1", "-", "g">> \o SuffixZip
\* x.zip: an archive whose name carries no tag.
PlainZip == <<"x">> \o SuffixZip

ZipUniverse == {TaggedZip, PlainZip}

\* b.img: an image.
Img == <<"b">> \o SuffixImg

\* What find_files_by_extension can return for zip, img and sha256sum.
ZipLists ==
    { s \in UNION { [1..n -> ZipUniverse] : n \in 0..MaxZips } :
        \A i, j \in 1..Len(s) : i # j => s[i] # s[j] }

ImgLists == { <<>>, <<Img>> }

ShaLists == SUBSET { z \o SuffixSha : z \in ZipUniverse }

InSeq(x, s) == \E i \in 1..Len(s) : s[i] = x

get_matching_sha_unchecked(zip_file, shas) == zip_file \o SuffixSha

\* get_matching_sha: Path(f"{zip_file}.sha256sum") if it is in sha_files
\* (<<>> stands for None)
get_matching_sha(zip_file, shas) ==
    LET sha_path == zip_file \o SuffixSha
    IN  IF sha_path \in shas THEN sha_path ELSE <<>>

\* add_sha_files: the loop over zip_files that appends to a copy of the list
RECURSIVE add_sha_files(_, _, _)
add_sha_files(files, zips, shas) ==
    IF zips = <<>> THEN files
    ELSE LET zip_file == Head(zips)
             sha_file == get_matching_sha(zip_file, shas)
             result   == IF InSeq(zip_file, files) /\ sha_file # <<>>
                         THEN Append(files, sha_file)
                         ELSE files
         IN  add_sha_files(result, Tail(zips), shas)

\* Python's part.split('-'): the pieces between the hyphens.
RECURSIVE SplitHyphen(_)
SplitHyphen(s) ==
    IF ~InSeq("-", s) THEN <<s>>
    ELSE LET p == CHOOSE i \in 1..Len(s) :
                     s[i] = "-" /\ \A j \in 1..(i - 1) : s[j] # "-"
         IN  <<SubSeq(s, 1, p - 1)>> \o SplitHyphen(SubSeq(s, p + 1, Len(s)))

\* Python's int(s) succeeds: a string of decimal digits (the ASCII digits without sign,
\* underscore or surrounding blanks are the strings the model types).
IsInt(s) == s # <<>> /\ \A i \in 1..Len(s) : IsDigit(s[i])

\* The value int(s) of such a string.
RECURSIVE int(_)
int(s) ==
    IF s = <<>> THEN 0
    ELSE 10 * int(SubSeq(s, 1, Len(s) - 1))
           + (CHOOSE d \in 0..9 : Digits[d + 1] = s[Len(s)])

InvalidPart == [kind |-> "invalid", start |-> 0, end |-> 0]

parse_part_no_ranges(part) ==
    IF ~InSeq("-", part) /\ IsInt(part)
    THEN [kind |-> "number", start |-> int(part), end |-> 0]
    ELSE InvalidPart

\* One part of `selected.split()` as the loop reads it: `'-' in part` and
\* `start, end = map(int, part.split('-'))`, or `int(part)`; a ValueError
\* makes the part invalid.
parse_part(part) ==
    IF InSeq("-", part)
    THEN LET pieces == SplitHyphen(part)
         IN  IF Len(pieces) = 2 /\ IsInt(pieces[1]) /\ IsInt(pieces[2])
             THEN [kind |-> "range", start |-> int(pieces[1]),
                   end |-> int(pieces[2])]
             ELSE InvalidPart
    ELSE IF IsInt(part)
    THEN [kind |-> "number", start |-> int(part), end |-> 0]
    ELSE InvalidPart

\* A part of the manual selector after `selected.split()`: a number, a range
\* start-end, or a part that int() rejects.
Parts(n) ==
    [kind : {"number"}, start : 0..(n + 1), end : {0}]
      \cup [kind : {"range"}, start : 0..(n + 1), end : 0..(n + 1)]
      \cup {[kind |-> "invalid", start |-> 0, end |-> 0]}

Selectors(n) == UNION { [1..k -> Parts(n)] : k \in 0..MaxParts }

\* The 0-based indices one part adds to selected_indices.
IndicesOfPart(part, n) ==
    IF part.kind = "range"
    THEN LET start_idx == part.start - 1
             end_idx   == part.end - 1
         IN  IF 0 <= start_idx /\ start_idx <= end_idx /\ end_idx < n
             THEN start_idx..end_idx ELSE {}
    ELSE IF part.kind = "number"
    THEN LET idx == part.start - 1
         IN  IF 0 <= idx /\ idx < n THEN {idx} ELSE {}
    ELSE {}

\* sorted(set(selected_indices)) mapped to all_files[idx]
RECURSIVE PickSorted(_, _, _)
PickSorted(indices, all_files, from) ==
    IF from >= Len(all_files) THEN <<>>
    ELSE (IF from \in indices THEN <<all_files[from + 1]>> ELSE <<>>)
           \o PickSorted(indices, all_files, from + 1)

nothing_picked_ignored(picked) == FALSE

\* `if not files_to_release` after the loop over selected_indices
nothing_picked(picked) == picked = <<>>

\* select_files_for_release before add_sha_files, for menu choice `choice`
\* and, for choice 4, the parts of the selector typed.
selection(choice, parts) ==
    LET all_files == zip_files \o img_files
        indices   == UNION { IndicesOfPart(parts[k], Len(all_files)) :
                                k \in 1..Len(parts) }
        picked    == PickSorted(indices, all_files, 0)
    IN  CASE choice = "1" -> zip_files \o img_files
          [] choice = "2" -> img_files
          [] choice = "3" -> zip_files
          [] OTHER -> IF parts = <<>> THEN zip_files \o img_files
                      ELSE IF nothing_picked(picked) THEN zip_files \o img_files
                      ELSE picked

select_files_for_release(choice, parts) ==
    add_sha_files(selection(choice, parts), zip_files, sha_files)

\* `if not (zip_files or img_files)`
no_files_found == zip_files = <<>> /\ img_files = <<>>

no_files_selected_never(files) == FALSE

\* `if not files_to_release`
no_files_selected(files) == files = <<>>

\* os.path.basename
RECURSIVE basename(_)
basename(path) ==
    IF \E i \in 1..Len(path) : path[i] = "/"
    THEN basename(Tail(path)) ELSE path

\* The last position of the line of `name` that holds position s: `.` and
\* \d match no line break.
LineEnd(name, s) ==
    CHOOSE e \in (s - 1)..Len(name) :
        /\ \A k \in s..e : name[k] # "\n"
        /\ e = Len(name) \/ name[e + 1] = "\n"

\* The end of group 1 when the pattern (.*?-.*?-\d+).* is matched from
\* position s, 0 when it does not match there.  The lazy groups stop at the
\* first hyphen and at the first later hyphen that a digit follows; \d+ takes
\* the whole run of digits.
MatchEnd(name, s) ==
    LET line_end == LineEnd(name, s)
        hyphens  == { i \in s..line_end : name[i] = "-" }
        first    == CHOOSE i \in hyphens : \A j \in hyphens : i <= j
        seconds  == { i \in hyphens : /\ i > first
                                      /\ i < line_end
                                      /\ IsDigit(name[i + 1]) }
        second   == CHOOSE i \in seconds : \A j \in seconds : i <= j
        last     == CHOOSE e \in (second + 1)..line_end :
                       /\ \A k \in (second + 1)..e : IsDigit(name[k])
                       /\ e = line_end \/ ~IsDigit(name[e + 1])
    IN  IF hyphens = {} \/ seconds = {} THEN 0 ELSE last

\* extract_tag_from_zip: re.search(r"(.*?-.*?-\d+).*", basename).group(1),
\* <<>> for None.  re.search takes the first position from which the pattern
\* matches.
extract_tag_from_zip(zip_file) ==
    LET name    == basename(zip_file)
        starts  == { s \in 1..Len(name) : MatchEnd(name, s) # 0 }
        start   == CHOOSE s \in starts : \A t \in starts : s <= t
    IN  IF starts = {} THEN <<>>
        ELSE SubSeq(name, start, MatchEnd(name, start))

----------------------------------------------------------------------------
(* External-client invocations *)

\* One invocation of gh that has ended: the function that issued it, the
\* subcommand, the tag and the files it carries, its exit code and what the
\* script finds in its error message.
Invocation(by, op, t, files, code, msg) ==
    [by |-> by, op |-> op, tag |-> t, files |-> files, code |-> code,
     msg |-> msg]

NoProcess == [op |-> "none"]

\* argparse's result when no flag is given: every value is falsy.
NoArgs == [all |-> FALSE, img |-> FALSE, zip |-> FALSE, notes |-> 0,
           yes |-> FALSE, upload |-> <<>>]

----------------------------------------------------------------------------
(* Prompts *)

\* One answer read by input(): the prompt and the text typed.  The texts of
\* the questions are taken after .lower().
Line(prompt, text) == [prompt |-> prompt, text |-> text]

Yes == <<"y">>
No == <<"n">>
\* A text that no menu and no question accepts.
Other == <<"x">>

\* "Press Enter to continue..."
Pause == Line("continue", <<>>)

\* The history of prompt states after the prompt state `name` is passed; a
\* prompt that is asked again is one prompt state.
Passed(history, name) ==
    IF history # <<>> /\ history[Len(history)] = name THEN history
    ELSE Append(history, name)

\* The run is in interactive_mode: its first prompt state is the action menu.
Interactive == asked # <<>> /\ asked[1] = "action"

\* A step that passes no prompt state; when it ends an interactive run, the
\* script waits for Enter before it returns.
Quiet ==
    /\ asked' = asked
    /\ inputs' = IF pc' = "done" /\ Interactive THEN <<Pause>> ELSE <<>>

----------------------------------------------------------------------------
(* get_unique_tag *)

\* Exit code of `gh release view <tag>` against the remote releases.
ReleaseViewCode(t) == IF t \in existing THEN 0 ELSE 1

\* check_tag_exists: exit_code == 0
check_tag_exists(t) == ReleaseViewCode(t) = 0

first_version_from_three == 2 + 1

\* `version = 2`
first_version == 2

next_version_skipping(v) == v + 2

\* `version += 1`
next_version(v) == v + 1

\* an `if` in place of the `while`: only the first candidate is tested
while_condition_once(t, v) == v = 2 /\ check_tag_exists(VersionedTag(t, v))

\* `while check_tag_exists(f"{tag}-v{version}")`
while_condition(t, v) == check_tag_exists(VersionedTag(t, v))

\* get_unique_tag, first test: `if not check_tag_exists(tag): return tag`
GetUniqueTagCheck ==
    /\ pc = "get_unique_tag"
    /\ log' = Append(log, Invocation("get_unique_tag", "view", arg, <<>>,
                                     ReleaseViewCode(arg), "none"))
    /\ IF ~check_tag_exists(arg)
       THEN /\ tag' = arg
            /\ pc' = ret
            /\ UNCHANGED version
       ELSE /\ version' = first_version
            /\ pc' = "get_unique_tag_loop"
            /\ UNCHANGED tag
    /\ Quiet
    /\ UNCHANGED <<ret, existing, arg, h, run_vars>>

\* get_unique_tag, one test of `while check_tag_exists(f"{tag}-v{version}")`
GetUniqueTagProbe ==
    /\ pc = "get_unique_tag_loop"
    /\ LET candidate == VersionedTag(arg, version) IN
       /\ log' = Append(log, Invocation("get_unique_tag", "view", candidate,
                                        <<>>, ReleaseViewCode(candidate), "none"))
       /\ IF while_condition(arg, version)
          THEN /\ version' = next_version(version)
               /\ UNCHANGED <<tag, pc>>
          ELSE /\ tag' = candidate
               /\ pc' = ret
               /\ UNCHANGED version
    /\ Quiet
    /\ UNCHANGED <<ret, existing, arg, h, run_vars>>

----------------------------------------------------------------------------
(* The run: main, interactive_mode and the orchestrator *)

\* The working directory and the remote releases do not change while the
\* run reads them.
world == <<existing, zip_files, img_files, sha_files, h>>


\* Locals of the orchestrator, of the prompts and of get_unique_tag.
meter == <<total_uploaded, reports, last_estimate, percentage>>
orchestrator == <<process, file_index, retry_count, attempt, exit_code, meter>>
prompts == <<args, action_choice, releases>>
resolver == <<ret, arg, version>>

\* Once the upload loops start, the script reads neither the scanned lists,
\* the command line, the release list nor the remote tags again: the model
\* stops keeping them.
Forget ==
    /\ existing' = {}
    /\ zip_files' = <<>>
    /\ img_files' = <<>>
    /\ sha_files' = {}
    /\ args' = NoArgs
    /\ releases' = <<>>
    /\ UNCHANGED <<action_choice, h>>

Keep == UNCHANGED <<world, prompts>>

TagU == <<"u">>

\* Tags that may exist remotely when the run starts.
RemoteTags == { <<"r", "-", "1", "-", "1">>, TagU, PlainZip }

\* Values of --upload, of a tag typed at a prompt, and of the release list.
UploadTags == { TagU, PlainZip }
TypedTags == { <<>>, TagU }
\* A title typed at "Enter release title: ".
TypedTitle == <<"t">>
ReleaseLists ==
    { s \in UNION { [1..n -> UploadTags] : n \in 0..MaxReleases } :
        \A i, j \in 1..Len(s) : i # j => s[i] # s[j] }

ArgChoices ==
    [all : BOOLEAN, img : BOOLEAN, zip : BOOLEAN, notes : 0..MaxNotes,
     yes : BOOLEAN, upload : UploadTags \cup {<<>>}]

\* `not any(vars(args).values())`
no_args(a) ==
    ~(a.all \/ a.img \/ a.zip \/ a.notes > 0 \/ a.yes \/ a.upload # <<>>)

\* Error messages of a failed upload, by what the script looks for in them.
Messages == {"authentication", "permission", "other"}

\* `"authentication" in stderr.lower() or "permission" in stderr.lower()`
is_auth_issue(msg) == msg = "authentication" \/ msg = "permission"

\* What the log keeps of the message of an upload that ended with `code`.
Found(code, msg) ==
    IF code = 0 THEN "none" ELSE IF is_auth_issue(msg) THEN "auth" ELSE "other"

\* `max_retries = 3`
max_retries == 3

retry_loop_continues_once_more(count) == count <= max_retries

\* `while retry_count < max_retries` and `for attempt in range(1, max_retries + 1)`
retry_loop_continues(count) == count < max_retries

\* `tag.endswith(".zip") or tag.endswith(".img") or tag.endswith(".sha256sum")`
looks_like_filename(t) ==
    EndsWith(t, SuffixZip) \/ EndsWith(t, SuffixImg) \/ EndsWith(t, SuffixSha)

release_missing_ignored(code) == FALSE

\* upload_to_existing_release: `if exit_code != 0` after `gh release view`
release_missing(code) == code # 0

\* the callers: `if exit_code != 0` after create_release_with_progress
first_method_failed(code) == code # 0

\* os.path.getsize, in MB: the archives have 4 MB, the images 2 MB and the
\* checksum files 1 MB.
getsize(file) ==
    IF EndsWith(file, SuffixSha) THEN 1
    ELSE IF EndsWith(file, SuffixImg) THEN 2
    ELSE 4

\* `total_size = sum(file_sizes.values())`
RECURSIVE total_size(_)
total_size(files) ==
    IF files = <<>> THEN 0 ELSE getsize(Head(files)) + total_size(Tail(files))

Min(a, b) == IF a < b THEN a ELSE b
Max(a, b) == IF a > b THEN a ELSE b

\* `base_speed`, in halves of a MB per second: 2 MB/s, 1.5 MB/s above 1 GB
base_speed(file_size) == IF file_size > 1024 THEN 3 ELSE 4

\* `current_estimate = min(file_size, adaptive_speed * elapsed)` with
\* `time_factor = min(1.0, elapsed / 60)` and `adaptive_speed = base_speed *
\* (1.0 - (time_factor * 0.5))`, in 1/240 MB
current_estimate(file_size, elapsed) ==
    Min(240 * file_size,
        base_speed(file_size) * elapsed * (120 - Min(60, elapsed)))

\* `estimated_uploaded = max(last_estimate, current_estimate)`
estimated_uploaded(last, current) == Max(last, current)

\* `percentage = min(99.9, (estimated_uploaded / file_size) * 100)`, in tenths
percentage_of(estimated, file_size) ==
    Min(999, (estimated * 1000) \div (240 * file_size))

\* `overall_percentage = (total_uploaded / total_size) * 100`, in tenths
overall_percentage(uploaded, files) == (uploaded * 1000) \div total_size(files)

\* Seconds since the start of the attempt at an update of the progress line.
Elapsed == {1, 3}

\* The completion lines of a file: its position in the plan and the
\* total_uploaded that the line shows.
Report(index, uploaded) == [file |-> index, uploaded |-> uploaded]

Init ==
    /\ pc = "check_github_auth"
    /\ ret = "none"
    /\ log = <<>>
    /\ process = NoProcess
    /\ existing \in SUBSET RemoteTags
    /\ zip_files \in ZipLists
    /\ img_files \in ImgLists
    /\ sha_files \in ShaLists
    /\ args = NoArgs
    /\ action_choice = <<>>
    /\ releases = <<>>
    /\ files_to_release = <<>>
    /\ tag = <<>>
    /\ arg = <<>>
    /\ version = 0
    /\ file_index = 0
    /\ retry_count = 0
    /\ attempt = 0
    /\ exit_code = -1
    /\ status = -1
    /\ total_uploaded = 0
    /\ reports = <<>>
    /\ last_estimate = 0
    /\ percentage = -1
    /\ asked = <<>>
    /\ inputs = <<>>
    /\ h = [input |-> <<>>, results |-> <<>>, marks |-> <<>>]

\* The process ends with this exit status.
Exit(code) == pc' = "done" /\ status' = code

\* check_github_auth: `if exit_code != 0` after `gh auth status`
github_unauthenticated(code) == code # 0

repository_inaccessible_ignored(code) == FALSE

\* check_repository_access: `if exit_code != 0` after `gh repo view`
repository_inaccessible(code) == code # 0

\* check_github_auth: `gh auth status`, and the question asked when the token
\* lacks the repo scope.
CheckGithubAuth ==
    /\ pc = "check_github_auth"
    /\ \E code \in {0, 1}, scopes_ok \in BOOLEAN, proceed \in {Yes, No} :
         /\ log' = Append(log, Invocation("check_github_auth", "auth", <<>>, <<>>, code,
                                        "none"))
         /\ IF github_unauthenticated(code) \/ (~scopes_ok /\ proceed # Yes)
            THEN Exit(1)
            ELSE pc' = "check_repository_access" /\ UNCHANGED status
         /\ inputs' = IF ~github_unauthenticated(code) /\ ~scopes_ok
                       THEN <<Line("proceed", proceed)>> ELSE <<>>
    /\ UNCHANGED <<files_to_release, tag, asked, orchestrator, prompts, resolver,
                   world>>

\* check_repository_access: `gh repo view`
CheckRepositoryAccess ==
    /\ pc = "check_repository_access"
    /\ \E code \in {0, 1} :
         /\ log' = Append(log, Invocation("check_repository_access", "repo", <<>>,
                                        <<>>, code, "none"))
         /\ IF repository_inaccessible(code)
            THEN Exit(1)
            ELSE pc' = "parse_args" /\ UNCHANGED status
    /\ Quiet
    /\ UNCHANGED <<files_to_release, tag, orchestrator, prompts, resolver, world>>

\* main: parse_args and the choice between interactive and flag-driven mode
ParseArgs ==
    /\ pc = "parse_args"
    /\ \E a \in ArgChoices :
         /\ args' = a
         /\ pc' = IF no_args(a) THEN "interactive_mode" ELSE "main_files"
    /\ Quiet
    /\ UNCHANGED <<log, action_choice, releases, files_to_release, tag, status,
                   orchestrator, resolver, world>>

\* main: `if args.img: ... elif args.zip: ... else: zip_files + img_files`
files_by_flags(a) ==
    IF a.img THEN img_files
    ELSE IF a.zip THEN zip_files
    ELSE zip_files \o img_files

\* main: the scan, the category filter, add_sha_files and the two emptiness
\* tests
MainFiles ==
    /\ pc = "main_files"
    /\ LET filtered == files_by_flags(args)
           plan == add_sha_files(filtered, zip_files, sha_files)
       IN  IF no_files_found
           THEN Exit(1) /\ UNCHANGED files_to_release
           ELSE /\ files_to_release' = plan
                /\ IF no_files_selected(plan)
                   THEN Exit(1)
                   ELSE /\ pc' = IF args.upload # <<>> THEN "main_upload"
                                                        ELSE "main_create"
                        /\ UNCHANGED status
    /\ Quiet
    /\ UNCHANGED <<log, tag, orchestrator, prompts, resolver, world>>

\* main, --upload: `gh release view <tag>` before upload_to_existing_release
MainUpload ==
    /\ pc = "main_upload"
    /\ LET code == ReleaseViewCode(args.upload) IN
         /\ log' = Append(log, Invocation("main", "view", args.upload, <<>>, code,
                                        "none"))
         /\ tag' = args.upload
         /\ IF code # 0
            THEN Exit(1)
            ELSE pc' = "upload_to_existing_release" /\ UNCHANGED status
    /\ Quiet
    /\ UNCHANGED <<files_to_release, orchestrator, prompts, resolver, world>>

\* main, create: the tag of the first archive, or the end of the run
MainCreate ==
    /\ pc = "main_create"
    /\ LET extracted == IF zip_files # <<>>
                        THEN extract_tag_from_zip(zip_files[1]) ELSE <<>>
       IN  /\ tag' = extracted
           /\ IF extracted = <<>>
              THEN Exit(1) /\ UNCHANGED <<arg, ret>>
              ELSE /\ arg' = extracted
                   /\ ret' = "confirm_create"
                   /\ pc' = "get_unique_tag"
                   /\ UNCHANGED status
    /\ Quiet
    /\ UNCHANGED <<log, files_to_release, version, orchestrator, prompts, world>>

\* interactive_mode: the scan and its emptiness test
InteractiveMode ==
    /\ pc = "interactive_mode"
    /\ IF no_files_found
       THEN Exit(1) /\ inputs' = <<Pause>>
       ELSE pc' = "choose_action" /\ UNCHANGED status /\ inputs' = <<>>
    /\ UNCHANGED <<log, files_to_release, tag, asked, orchestrator, prompts,
                   resolver, world>>

\* interactive_mode: `while action_choice not in ["1", "2"]`, one answer
ChooseAction ==
    /\ pc = "choose_action"
    /\ \E answer \in {"1", "2", "other"} :
         /\ IF answer = "other"
            THEN UNCHANGED <<pc, action_choice>>
            ELSE /\ action_choice' = answer
                 /\ pc' = IF answer = "2" THEN "fetch_recent_releases"
                                          ELSE "create_tag"
         /\ inputs' = <<Line("action",
                             IF answer = "other" THEN Other ELSE <<answer>>)>>
    /\ asked' = Passed(asked, "action")
    /\ UNCHANGED <<log, files_to_release, tag, status, args, releases,
                   orchestrator, resolver, world>>

\* interactive_mode, action 2: fetch_recent_releases(5) and the fall back to
\* creation when it returns no release
FetchRecentReleases ==
    /\ pc = "fetch_recent_releases"
    /\ \E code \in {0, 1}, listed \in ReleaseLists :
         LET found == IF code # 0 THEN <<>> ELSE listed IN
         /\ log' = Append(log, Invocation("fetch_recent_releases", "list", <<>>,
                                        <<>>, code, "none"))
         /\ releases' = found
         /\ IF found = <<>>
            THEN action_choice' = "1" /\ pc' = "create_tag"
            ELSE UNCHANGED action_choice /\ pc' = "choose_release"
    /\ Quiet
    /\ UNCHANGED <<files_to_release, tag, status, args, orchestrator, resolver,
                   world>>

\* interactive_mode, action 2: one answer to "Choose a release"; 0 stands
\* for an answer that is not in valid_choices
ChooseRelease ==
    /\ pc = "choose_release"
    /\ \E answer \in 0..(Len(releases) + 1) :
         /\ IF answer = 0
            THEN UNCHANGED <<pc, tag>>
            ELSE IF answer = Len(releases) + 1
            THEN pc' = "enter_release_tag" /\ UNCHANGED tag
            ELSE tag' = releases[answer] /\ pc' = "verify_release"
         /\ inputs' = <<Line("release", IF answer = 0 THEN Other ELSE Dec(answer))>>
    /\ asked' = Passed(asked, "release")
    /\ UNCHANGED <<log, files_to_release, status, orchestrator, prompts, resolver,
                   world>>

\* interactive_mode, action 2, manual entry: one answer to "Enter release
\* tag", asked again `while not tag`
EnterReleaseTag ==
    /\ pc = "enter_release_tag"
    /\ \E typed \in UploadTags \cup {<<>>} :
         /\ tag' = typed
         /\ pc' = IF typed = <<>> THEN pc ELSE "verify_release"
         /\ inputs' = <<Line("release_tag", typed)>>
    /\ asked' = Passed(asked, "release")
    /\ UNCHANGED <<log, files_to_release, status, orchestrator, prompts, resolver,
                   world>>

\* interactive_mode, action 2: `if not check_tag_exists(tag): return 1`
VerifyRelease ==
    /\ pc = "verify_release"
    /\ log' = Append(log, Invocation("interactive_mode", "view", tag, <<>>,
                                   ReleaseViewCode(tag), "none"))
    /\ IF ~check_tag_exists(tag)
       THEN Exit(1)
       ELSE pc' = "select_files_for_release" /\ UNCHANGED status
    /\ Quiet
    /\ UNCHANGED <<files_to_release, tag, orchestrator, prompts, resolver, world>>

\* interactive_mode, action 1: the tag extracted from the first archive or
\* typed, the title questions, and the call of get_unique_tag
CreateTag ==
    /\ pc = "create_tag"
    /\ \E change_tag \in {Yes, No, Other}, typed \in TypedTags,
          change_title \in {Yes, No, Other} :
         LET extracted == IF zip_files # <<>>
                          THEN extract_tag_from_zip(zip_files[1]) ELSE <<>>
             chosen == IF extracted # <<>> /\ change_tag # Yes
                       THEN extracted ELSE typed
             tag_lines ==
                 IF extracted # <<>>
                 THEN <<Line("change_tag", change_tag)>>
                        \o (IF change_tag = Yes THEN <<Line("tag", typed)>>
                                                ELSE <<>>)
                 ELSE <<Line("tag", typed)>>
                        \o (IF zip_files = <<>> THEN <<Line("title", TypedTitle)>>
                                                ELSE <<>>)
             title_lines ==
                 <<Line("change_title", change_title)>>
                   \o (IF change_title = Yes THEN <<Line("title", TypedTitle)>>
                                             ELSE <<>>)
         IN  /\ tag' = chosen
             /\ arg' = chosen
             /\ inputs' = tag_lines \o title_lines
    /\ asked' = Passed(Passed(asked, "tag"), "title")
    /\ ret' = "get_user_notes"
    /\ pc' = "get_unique_tag"
    /\ UNCHANGED <<log, files_to_release, status, version, orchestrator, prompts,
                   world>>

\* interactive_mode, action 1: get_user_notes(True)
GetUserNotes ==
    /\ pc = "get_user_notes"
    /\ pc' = "select_files_for_release"
    /\ asked' = Passed(asked, "notes")
    /\ inputs' = <<Line("notes", <<>>)>>
    /\ UNCHANGED <<log, files_to_release, tag, status, orchestrator, prompts,
                   resolver, world>>

\* interactive_mode: select_files_for_release with one answer to its menu,
\* and `if not files_to_release: return 1`
SelectFilesForRelease ==
    /\ pc = "select_files_for_release"
    /\ \E choice \in {"1", "2", "3", "4", "other"} :
         \E parts \in IF choice = "4"
                      THEN Selectors(Len(zip_files) + Len(img_files))
                      ELSE {<<>>} :
           /\ IF choice = "other"
              THEN UNCHANGED <<pc, files_to_release, status>>
              ELSE LET plan == select_files_for_release(choice, parts) IN
                   /\ files_to_release' = plan
                   /\ IF no_files_selected(plan)
                      THEN Exit(1)
                      ELSE /\ pc' = IF action_choice = "2"
                                    THEN "upload_to_existing_release"
                                    ELSE "confirm_create"
                           /\ UNCHANGED status
           /\ inputs' = <<Line("files",
                               IF choice = "other" THEN Other ELSE <<choice>>)>>
                           \o (IF pc' = "done" THEN <<Pause>> ELSE <<>>)
    /\ asked' = Passed(asked, "files")
    /\ UNCHANGED <<log, tag, orchestrator, prompts, resolver, world>>

auto_confirm_always(a) == TRUE

\* get_confirmation(auto_confirm) of main: `auto_confirm = args.yes`; the
\* call of interactive_mode passes False, and there args.yes is False
auto_confirm(a) == a.yes

\* main and interactive_mode, create: get_confirmation, one answer
ConfirmCreate ==
    /\ pc = "confirm_create"
    /\ \E response \in {Yes, No, Other} :
         /\ IF auto_confirm(args) \/ response = Yes
            THEN pc' = "create_release_with_progress" /\ UNCHANGED status /\ Forget
            ELSE IF response = No
            THEN Exit(0) /\ Keep
            ELSE UNCHANGED <<pc, status>> /\ Keep
         /\ IF auto_confirm(args)
            THEN asked' = asked /\ inputs' = <<>>
            ELSE /\ asked' = Passed(asked, "confirm")
                 /\ inputs' = <<Line("confirm", response)>>
                                 \o (IF pc' = "done" /\ Interactive
                                     THEN <<Pause>> ELSE <<>>)
    /\ UNCHANGED <<log, files_to_release, tag, orchestrator, resolver>>

\* create_release_with_progress returns exit code `code` to its caller.
ProgressReturns(code) ==
    /\ exit_code' = code
    /\ pc' = "progress_returned"

\* create_release_with_progress: what follows the retry loop of one file once
\* the loop has ended with retry_count = count: the failure return when the
\* retries are used up, the next file, or the success return after the last.
AfterRetryLoop(count) ==
    IF count = max_retries
    THEN ProgressReturns(1) /\ UNCHANGED file_index /\ retry_count' = count
    ELSE IF file_index < Len(files_to_release)
    THEN /\ file_index' = file_index + 1
         /\ retry_count' = 0
         /\ pc' = "progress_popen"
         /\ UNCHANGED exit_code
    ELSE ProgressReturns(0) /\ UNCHANGED file_index /\ retry_count' = count

\* create_release_with_progress: `gh release create <tag>` without files, and
\* `gh auth status` when it fails.  An exception of the subprocess call is
\* kept in the log as a failed creation.
ProgressCreate ==
    /\ pc = "create_release_with_progress"
    /\ \E outcome \in {"created", "failed", "exception"} :
         IF outcome = "created"
         THEN /\ log' = Append(log, Invocation("create_release_with_progress",
                                             "create", tag, <<>>, 0, "none"))
              /\ IF files_to_release = <<>>
                 THEN ProgressReturns(0) /\ UNCHANGED <<file_index, retry_count>>
                 ELSE /\ file_index' = 1
                      /\ retry_count' = 0
                      /\ pc' = "progress_popen"
                      /\ UNCHANGED exit_code
         ELSE /\ log' = IF outcome = "failed"
                        THEN log \o <<Invocation("create_release_with_progress",
                                                 "create", tag, <<>>, 1, "other"),
                                      Invocation("create_release_with_progress",
                                                 "auth", <<>>, <<>>, 0, "none")>>
                        ELSE Append(log, Invocation("create_release_with_progress",
                                                    "create", tag, <<>>, 1,
                                                    "exception"))
              /\ ProgressReturns(1)
              /\ UNCHANGED <<file_index, retry_count>>
    /\ total_uploaded' = 0
    /\ reports' = <<>>
    /\ Quiet
    /\ UNCHANGED <<files_to_release, tag, status, process, attempt,
                   last_estimate, percentage, prompts, resolver, world>>

\* create_release_with_progress: subprocess.Popen of the upload of one file
ProgressPopen ==
    /\ pc = "progress_popen"
    /\ process' = [by |-> "create_release_with_progress", op |-> "upload",
                   tag |-> tag, files |-> <<files_to_release[file_index]>>]
    /\ last_estimate' = 0
    /\ pc' = "progress_poll"
    /\ Quiet
    /\ UNCHANGED <<log, files_to_release, tag, status, file_index, retry_count,
                   attempt, exit_code, total_uploaded, reports, percentage,
                   prompts, resolver, world>>

\* create_release_with_progress: one update of the progress line while the
\* upload process runs
ProgressPoll ==
    /\ pc = "progress_poll"
    /\ \E elapsed \in Elapsed :
         LET file_size == getsize(files_to_release[file_index])
             estimated == estimated_uploaded(last_estimate,
                              current_estimate(file_size, elapsed))
         IN  /\ last_estimate' = estimated
             /\ percentage' = percentage_of(estimated, file_size)
    /\ pc' = pc
    /\ Quiet
    /\ UNCHANGED <<log, files_to_release, tag, status, process, file_index,
                   retry_count, attempt, exit_code, total_uploaded, reports,
                   prompts, resolver, world>>

\* create_release_with_progress: the upload process has ended; the exit code
\* and the message decide between the next file, a retry and the return.
\* `break` leaves the retry loop on exit code 0; after the authentication
\* branch the body of the loop goes on to `total_uploaded += file_size` and
\* to the completion lines.  last_estimate is not read again before the next
\* Popen sets it, and the progress line starts anew with the next file.
ProgressFinish ==
    /\ pc = "progress_poll"
    /\ \E code \in {0, 1}, msg \in Messages :
         /\ code = 0 => msg = "other"
         /\ log' = Append(log, Invocation(process.by, process.op, process.tag,
                                          process.files, code, Found(code, msg)))
         /\ IF code = 0
            THEN AfterRetryLoop(retry_count)
            ELSE IF is_auth_issue(msg)
            THEN IF retry_loop_continues(retry_count + 1)
                 THEN /\ retry_count' = retry_count + 1
                      /\ pc' = "progress_popen"
                      /\ UNCHANGED <<file_index, exit_code>>
                 ELSE AfterRetryLoop(retry_count + 1)
            ELSE ProgressReturns(code) /\ UNCHANGED <<file_index, retry_count>>
         /\ IF code # 0 /\ is_auth_issue(msg)
            THEN LET uploaded == total_uploaded
                                   + getsize(files_to_release[file_index])
                 IN  /\ total_uploaded' = uploaded
                     /\ reports' = Append(reports, Report(file_index, uploaded))
            ELSE UNCHANGED <<total_uploaded, reports>>
    /\ process' = NoProcess
    /\ last_estimate' = 0
    /\ percentage' = IF pc' = "progress_popen" /\ file_index' = file_index
                     THEN percentage ELSE -1
    /\ Quiet
    /\ UNCHANGED <<files_to_release, tag, status, attempt, prompts, resolver,
                   world>>

\* An interrupt handler that kills the process and goes on with the loop.
ProgressInterruptSwallowed ==
    /\ pc = "progress_poll"
    /\ log' = Append(log, Invocation(process.by, process.op, process.tag,
                                     process.files, -9, "killed"))
    /\ process' = NoProcess
    /\ AfterRetryLoop(retry_count)
    /\ last_estimate' = 0
    /\ percentage' = -1
    /\ Quiet
    /\ UNCHANGED <<files_to_release, tag, status, attempt, total_uploaded,
                   reports, prompts, resolver, world>>

\* create_release_with_progress: KeyboardInterrupt while the upload process
\* is polled: process.kill() and the return of ("Interrupted by user", 1)
ProgressInterrupt ==
    /\ pc = "progress_poll"
    /\ log' = Append(log, Invocation(process.by, process.op, process.tag,
                                     process.files, -9, "killed"))
    /\ process' = NoProcess
    /\ ProgressReturns(1)
    /\ last_estimate' = 0
    /\ percentage' = -1
    /\ Quiet
    /\ UNCHANGED <<files_to_release, tag, status, file_index, retry_count,
                   attempt, total_uploaded, reports, prompts, resolver, world>>

\* main and interactive_mode: the test of the first method's exit code
AfterProgress ==
    /\ pc = "progress_returned"
    /\ IF first_method_failed(exit_code)
       THEN pc' = "create_release_with_direct_command" /\ UNCHANGED status
       ELSE Exit(0)
    /\ Quiet
    /\ UNCHANGED <<log, files_to_release, tag, orchestrator, prompts, resolver,
                   world>>

\* create_release_with_direct_command: one `gh release create <tag>` carrying
\* every file, and the caller's exit status
DirectCommand ==
    /\ pc = "create_release_with_direct_command"
    /\ \E code \in {0, 1} :
         /\ log' = Append(log, Invocation("create_release_with_direct_command",
                                          "create", tag, files_to_release, code,
                                          IF code = 0 THEN "none" ELSE "other"))
         /\ exit_code' = code
         /\ Exit(IF code = 0 THEN 0 ELSE 1)
    /\ Quiet
    /\ UNCHANGED <<files_to_release, tag, process, file_index, retry_count,
                   attempt, meter, prompts, resolver, world>>

\* upload_to_existing_release: the test that the tag is no file name, and
\* the tag typed instead
UploadToExistingRelease ==
    /\ pc = "upload_to_existing_release"
    /\ \E correct_tag \in TypedTags :
         IF looks_like_filename(tag)
         THEN /\ IF correct_tag = <<>>
                 THEN Exit(1) /\ UNCHANGED tag
                 ELSE /\ tag' = correct_tag
                      /\ pc' = "upload_verify"
                      /\ UNCHANGED status
              /\ asked' = Passed(asked, "correct_tag")
              /\ inputs' = <<Line("correct_tag", correct_tag)>>
                              \o (IF pc' = "done" /\ Interactive
                                  THEN <<Pause>> ELSE <<>>)
         ELSE pc' = "upload_verify" /\ UNCHANGED <<tag, status>> /\ Quiet
    /\ UNCHANGED <<log, files_to_release, orchestrator, prompts, resolver, world>>

\* upload_to_existing_release: `gh release view <tag>`
UploadVerify ==
    /\ pc = "upload_verify"
    /\ LET code == ReleaseViewCode(tag) IN
         /\ log' = Append(log, Invocation("upload_to_existing_release", "view",
                                          tag, <<>>, code, "none"))
         /\ IF release_missing(code)
            THEN Exit(1)
            ELSE pc' = "upload_confirm" /\ UNCHANGED status
    /\ Quiet
    /\ UNCHANGED <<files_to_release, tag, orchestrator, prompts, resolver, world>>

\* upload_to_existing_release: get_confirmation(False), one answer
UploadConfirm ==
    /\ pc = "upload_confirm"
    /\ \E response \in {Yes, No, Other} :
         /\ IF response = Yes
            THEN /\ Forget
                 /\ total_uploaded' = 0
                 /\ reports' = <<>>
                 /\ IF files_to_release = <<>>
                    THEN Exit(0) /\ UNCHANGED <<file_index, attempt>>
                    ELSE /\ file_index' = 1
                         /\ attempt' = 1
                         /\ pc' = "upload_attempt"
                         /\ UNCHANGED status
            ELSE IF response = No
            THEN /\ Exit(1)
                 /\ UNCHANGED <<file_index, attempt, total_uploaded, reports>>
                 /\ Keep
            ELSE /\ UNCHANGED <<pc, status, file_index, attempt, total_uploaded,
                                reports>>
                 /\ Keep
         /\ asked' = Passed(asked, "confirm")
         /\ inputs' = <<Line("confirm", response)>>
                         \o (IF pc' = "done" /\ Interactive
                             THEN <<Pause>> ELSE <<>>)
    /\ UNCHANGED <<log, files_to_release, tag, process, retry_count, exit_code,
                   last_estimate, percentage, resolver>>

\* upload_to_existing_release: the next file after the attempts of one file
\* have ended without the failure flag, or the success return after the last
UploadNextFile ==
    IF file_index < Len(files_to_release)
    THEN /\ file_index' = file_index + 1
         /\ attempt' = 1
         /\ UNCHANGED <<pc, status>>
    ELSE Exit(0) /\ UNCHANGED <<file_index, attempt>>

\* upload_to_existing_release: one run_command of `gh release upload <tag>
\* <file>` in the loop over the attempts
UploadAttempt ==
    /\ pc = "upload_attempt"
    /\ \E code \in {0, 1}, msg \in Messages :
         /\ code = 0 => msg = "other"
         /\ log' = Append(log, Invocation("upload_to_existing_release", "upload",
                                          tag, <<files_to_release[file_index]>>,
                                          code, Found(code, msg)))
         /\ IF code = 0
            THEN UploadNextFile
            ELSE IF attempt = max_retries
            THEN Exit(1) /\ UNCHANGED <<file_index, attempt>>
            ELSE IF retry_loop_continues(attempt)
            THEN attempt' = attempt + 1 /\ UNCHANGED <<pc, status, file_index>>
            ELSE UploadNextFile
         /\ IF code = 0
            THEN LET uploaded == total_uploaded
                                   + getsize(files_to_release[file_index])
                 IN  /\ total_uploaded' = uploaded
                     /\ reports' = Append(reports, Report(file_index, uploaded))
            ELSE UNCHANGED <<total_uploaded, reports>>
    /\ Quiet
    /\ UNCHANGED <<files_to_release, tag, process, retry_count, exit_code,
                   last_estimate, percentage, prompts, resolver, world>>

Next ==
    \/ CheckGithubAuth
    \/ CheckRepositoryAccess
    \/ ParseArgs
    \/ MainFiles
    \/ MainUpload
    \/ MainCreate
    \/ InteractiveMode
    \/ ChooseAction
    \/ FetchRecentReleases
    \/ ChooseRelease
    \/ EnterReleaseTag
    \/ VerifyRelease
    \/ CreateTag
    \/ GetUniqueTagCheck
    \/ GetUniqueTagProbe
    \/ GetUserNotes
    \/ SelectFilesForRelease
    \/ ConfirmCreate
    \/ ProgressCreate
    \/ ProgressPopen
    \/ ProgressPoll
    \/ ProgressFinish
    \/ ProgressInterrupt
    \/ AfterProgress
    \/ DirectCommand
    \/ UploadToExistingRelease
    \/ UploadVerify
    \/ UploadConfirm
    \/ UploadAttempt

Spec == Init /\ [][Next]_vars

----------------------------------------------------------------------------
(* Resolver runs: get_unique_tag(T), get_unique_tag(T), get_unique_tag(R) *)

ResolverInputs == { <<"r", "-", "1", "-", "1">>, <<"u">> }

TagUniverse(t) == {t} \cup { VersionedTag(t, n) : n \in 2..MaxVersion }

InitTag ==
    /\ pc = "resolver_call"
    /\ ret = "resolver_return"
    /\ log = <<>>
    /\ \E t \in ResolverInputs :
         /\ existing \in SUBSET TagUniverse(t)
         /\ h = [input |-> t, results |-> <<>>, marks |-> <<>>]
    /\ tag = <<>>
    /\ arg = <<>>
    /\ version = 0
    /\ process = NoProcess
    /\ zip_files = <<>>
    /\ img_files = <<>>
    /\ sha_files = {}
    /\ args = NoArgs
    /\ action_choice = <<>>
    /\ releases = <<>>
    /\ files_to_release = <<>>
    /\ file_index = 0
    /\ retry_count = 0
    /\ attempt = 0
    /\ exit_code = -1
    /\ status = -1
    /\ total_uploaded = 0
    /\ reports = <<>>
    /\ last_estimate = 0
    /\ percentage = -1
    /\ asked = <<>>
    /\ inputs = <<>>

\* The next call: twice the input, then the first result.
ResolverCall ==
    /\ pc = "resolver_call"
    /\ Len(h.results) < 3
    /\ arg' = IF Len(h.results) < 2 THEN h.input ELSE h.results[1]
    /\ h' = [h EXCEPT !.marks = Append(@, Len(log))]
    /\ version' = 0
    /\ pc' = "get_unique_tag"
    /\ UNCHANGED <<ret, log, existing, tag, asked, inputs, run_vars>>

ResolverReturn ==
    /\ pc = "resolver_return"
    /\ h' = [h EXCEPT !.results = Append(@, tag)]
    /\ pc' = "resolver_call"
    /\ UNCHANGED <<ret, log, existing, tag, arg, version, asked, inputs, run_vars>>

NextTag == ResolverCall \/ GetUniqueTagCheck \/ GetUniqueTagProbe \/ ResolverReturn

SpecTag == InitTag /\ [][NextTag]_vars

----------------------------------------------------------------------------
(* Planner runs: select_files_for_release and the filter of main, applied  *)
(* to a scan result                                                        *)

\* c.img: a second image.
Img2 == <<"c">> \o SuffixImg

PlanZipLists ==
    { s \in UNION { [1..n -> ZipUniverse] : n \in 0..MaxPlanZips } :
        \A i, j \in 1..Len(s) : i # j => s[i] # s[j] }

PlanImgLists == { <<>>, <<Img>>, <<Img, Img2>> }

\* The parts typed at "Select files: ": numbers, ranges, and parts that the
\* parse rejects.
PlanTokens ==
    { <<"0">>, <<"1">>, <<"2">>, <<"4">>, <<"5">>, <<"1", "2">>,
      <<"1", "-", "2">>, <<"3", "-", "4">>, <<"2", "-", "4">>,
      <<"3", "-", "1">>, <<"0", "-", "2">>, <<"2", "-", "5">>,
      <<"x">>, <<"-", "1">>, <<"1", "-">>, <<"1", "-", "2", "-", "3">>,
      <<"1", "-", "x">> }

\* `selected.split()`; the empty sequence is an empty or blank line.
PlanSelectors == UNION { [1..k -> PlanTokens] : k \in 0..MaxPlanParts }

InitPlan ==
    /\ pc = "plan_call"
    /\ ret = "none"
    /\ log = <<>>
    /\ process = NoProcess
    /\ existing = {}
    /\ zip_files \in PlanZipLists
    /\ img_files \in PlanImgLists
    /\ sha_files \in ShaLists
    /\ args = NoArgs
    /\ action_choice = <<>>
    /\ releases = <<>>
    /\ files_to_release = <<>>
    /\ tag = <<>>
    /\ arg = <<>>
    /\ version = 0
    /\ file_index = 0
    /\ retry_count = 0
    /\ attempt = 0
    /\ exit_code = -1
    /\ status = -1
    /\ total_uploaded = 0
    /\ reports = <<>>
    /\ last_estimate = 0
    /\ percentage = -1
    /\ asked = <<>>
    /\ inputs = <<>>
    /\ h = [mode |-> "none", tokens |-> <<>>, selected |-> <<>>]

\* select_files_for_release with menu choice `choice` and, for choice 4, the
\* line typed at "Select files: "
PlanSelect ==
    /\ pc = "plan_call"
    /\ \E choice \in {"1", "2", "3", "4"} :
         \E tokens \in IF choice = "4" THEN PlanSelectors ELSE {<<>>} :
           LET parts == [k \in 1..Len(tokens) |-> parse_part(tokens[k])] IN
           /\ h' = [mode |-> choice, tokens |-> tokens,
                    selected |-> selection(choice, parts)]
           /\ files_to_release' = select_files_for_release(choice, parts)
    /\ pc' = "plan_return"
    /\ UNCHANGED <<ret, log, process, existing, zip_files, img_files, sha_files,
                   args, action_choice, releases, tag, arg, version, file_index,
                   retry_count, attempt, exit_code, status, meter, asked,
                   inputs>>

\* main: the filter by --img, --zip or --all and add_sha_files
PlanMain ==
    /\ pc = "plan_call"
    /\ \E flag \in {"img", "zip", "all"} :
         LET a == [NoArgs EXCEPT !.img = (flag = "img"), !.zip = (flag = "zip"),
                                 !.all = (flag = "all")]
         IN  /\ h' = [mode |-> flag, tokens |-> <<>>,
                      selected |-> files_by_flags(a)]
             /\ files_to_release' =
                    add_sha_files(files_by_flags(a), zip_files, sha_files)
    /\ pc' = "plan_return"
    /\ UNCHANGED <<ret, log, process, existing, zip_files, img_files, sha_files,
                   args, action_choice, releases, tag, arg, version, file_index,
                   retry_count, attempt, exit_code, status, meter, asked,
                   inputs>>

NextPlan == PlanSelect \/ PlanMain

SpecPlan == InitPlan /\ [][NextPlan]_vars

----------------------------------------------------------------------------
(* Notes runs: get_user_notes and the --notes flags of main *)

\* "- Auto-generated release"
Placeholder ==
    <<"-", " ", "A", "u", "t", "o", "-", "g", "e", "n", "e", "r", "a", "t", "e",
      "d", " ", "r", "e", "l", "e", "a", "s", "e">>

\* f"- {note}"
Bullet(note) == <<"-", " ">> \o note

\* Python's "\n".join(lines)
RECURSIVE Join(_)
Join(lines) ==
    IF lines = <<>> THEN <<>>
    ELSE IF Len(lines) = 1 THEN lines[1]
    ELSE lines[1] \o <<"\n">> \o Join(Tail(lines))

\* Python's str.lower() on the letters that the typed notes use.
Lower(s) ==
    [i \in 1..Len(s) |-> CASE s[i] = "D" -> "d"
                           [] s[i] = "O" -> "o"
                           [] s[i] = "N" -> "n"
                           [] s[i] = "E" -> "e"
                           [] OTHER -> s[i]]

Done == <<"d", "o", "n", "e">>

\* `for i in range(5)`
NoteRounds == 5

\* get_user_notes, the loop: the answer to "Note {i}: " is typed[i + 1], and
\* Enter alone once the typed answers are used up.
RECURSIVE NotesLoop(_, _, _)
NotesLoop(typed, i, notes) ==
    LET note == IF i < Len(typed) THEN typed[i + 1] ELSE <<>> IN
    IF i >= NoteRounds \/ note = <<>> \/ Lower(note) = Done THEN notes
    ELSE NotesLoop(typed, i + 1, Append(notes, Bullet(note)))

\* get_user_notes(interactive) with the answers `typed`
get_user_notes(interactive, typed) ==
    IF ~interactive THEN Placeholder
    ELSE LET notes == NotesLoop(typed, 0, <<>>)
         IN  IF notes = <<>> THEN Placeholder ELSE Join(notes)

\* main: `if args.notes: "\n".join([f"- {note}" for note in args.notes])`,
\* else the placeholder; <<>> stands for both None and the empty list
main_notes(notes_args) ==
    IF notes_args # <<>>
    THEN Join([i \in 1..Len(notes_args) |-> Bullet(notes_args[i])])
    ELSE Placeholder

\* The answers typed at "Note {i}: ": input() returns a line without its end.
TypedNotes == { <<>>, <<"a">>, Done, <<"D", "o", "n", "e">> }

\* Values of --notes: any argument of the command line, a line break included.
FlagNotes == { <<>>, <<"a">>, <<"a", "\n", "b">> }

InitNotes ==
    /\ pc = "notes_call"
    /\ ret = "none"
    /\ log = <<>>
    /\ process = NoProcess
    /\ existing = {}
    /\ zip_files = <<>>
    /\ img_files = <<>>
    /\ sha_files = {}
    /\ args = NoArgs
    /\ action_choice = <<>>
    /\ releases = <<>>
    /\ files_to_release = <<>>
    /\ tag = <<>>
    /\ arg = <<>>
    /\ version = 0
    /\ file_index = 0
    /\ retry_count = 0
    /\ attempt = 0
    /\ exit_code = -1
    /\ status = -1
    /\ total_uploaded = 0
    /\ reports = <<>>
    /\ last_estimate = 0
    /\ percentage = -1
    /\ asked = <<>>
    /\ inputs = <<>>
    /\ h = [mode |-> "none", given |-> <<>>, notes |-> <<>>]

\* interactive_mode: `notes = get_user_notes(True)`
NotesInteractive ==
    /\ pc = "notes_call"
    /\ \E typed \in UNION { [1..k -> TypedNotes] : k \in 0..MaxNoteLines } :
         h' = [mode |-> "interactive", given |-> typed,
               notes |-> get_user_notes(TRUE, typed)]
    /\ pc' = "notes_return"
    /\ UNCHANGED <<ret, log, process, existing, zip_files, img_files, sha_files,
                   args, action_choice, releases, files_to_release, tag, arg,
                   version, file_index, retry_count, attempt, exit_code, status,
                   meter, asked, inputs>>

\* main: the notes of the --notes flags
NotesFlags ==
    /\ pc = "notes_call"
    /\ \E given \in UNION { [1..k -> FlagNotes] : k \in 0..MaxNoteLines } :
         h' = [mode |-> "flags", given |-> given, notes |-> main_notes(given)]
    /\ pc' = "notes_return"
    /\ UNCHANGED <<ret, log, process, existing, zip_files, img_files, sha_files,
                   args, action_choice, releases, files_to_release, tag, arg,
                   version, file_index, retry_count, attempt, exit_code, status,
                   meter, asked, inputs>>

NextNotes == NotesInteractive \/ NotesFlags

SpecNotes == InitNotes /\ [][NextNotes]_vars

----------------------------------------------------------------------------
(* Name runs: extract_tag_from_zip applied to the path of an archive *)

\* The characters of the archive names: a letter, the hyphen, a digit and a
\* line break, which a file name may hold.
NameChars == {"a", "-", "1", "\n"}

\* The base names that glob("*.zip") can return.
BaseNames ==
    { body \o SuffixZip :
        body \in UNION { [1..n -> NameChars] : n \in 0..MaxNameLen } }

\* The directory part of the path.
Dirs == { <<>>, <<"d", "/">>, <<"d", "-", "1", "-", "1", "/">> }

InitName ==
    /\ pc = "name_call"
    /\ ret = "none"
    /\ log = <<>>
    /\ process = NoProcess
    /\ existing = {}
    /\ zip_files = <<>>
    /\ img_files = <<>>
    /\ sha_files = {}
    /\ args = NoArgs
    /\ action_choice = <<>>
    /\ releases = <<>>
    /\ files_to_release = <<>>
    /\ tag = <<>>
    /\ arg = <<>>
    /\ version = 0
    /\ file_index = 0
    /\ retry_count = 0
    /\ attempt = 0
    /\ exit_code = -1
    /\ status = -1
    /\ total_uploaded = 0
    /\ reports = <<>>
    /\ last_estimate = 0
    /\ percentage = -1
    /\ asked = <<>>
    /\ inputs = <<>>
    /\ h = [path |-> <<>>, first |-> <<>>, second |-> <<>>]

\* main and interactive_mode: `tag = extract_tag_from_zip(zipname)`, called
\* twice on the same path
ExtractTag ==
    /\ pc = "name_call"
    /\ \E dir \in Dirs, base \in BaseNames :
         /\ h' = [path |-> dir \o base,
                  first |-> extract_tag_from_zip(dir \o base),
                  second |-> extract_tag_from_zip(dir \o base)]
         /\ tag' = extract_tag_from_zip(dir \o base)
    /\ pc' = "name_return"
    /\ UNCHANGED <<ret, log, process, existing, zip_files, img_files, sha_files,
                   args, action_choice, releases, files_to_release, arg,
                   version, file_index, retry_count, attempt, exit_code, status,
                   meter, asked, inputs>>

NextName == ExtractTag

SpecName == InitName /\ [][NextName]_vars

----------------------------------------------------------------------------
(* Properties of the run, checked under Spec *)

\* The invocations issued so far: those that have ended and the one in flight.
Brief(e) == [by |-> e.by, op |-> e.op, tag |-> e.tag, files |-> e.files]

Issued ==
    [i \in 1..Len(log) |-> Brief(log[i])]
      \o (IF process = NoProcess THEN <<>> ELSE <<process>>)

Progress == "create_release_with_progress"
Direct == "create_release_with_direct_command"
Existing == "upload_to_existing_release"

\* The positions of the script inside the two per-file upload loops.
LoopPcs == {"progress_popen", "progress_poll", "upload_attempt"}

\* The positions of the script inside the orchestrator.
OrchestratorPcs ==
    LoopPcs \cup {"create_release_with_progress", "progress_returned",
                  "create_release_with_direct_command",
                  "upload_to_existing_release", "upload_verify", "upload_confirm"}

PlanFiles == { files_to_release[k] : k \in 1..Len(files_to_release) }

PositionInPlan(f) == CHOOSE k \in 1..Len(files_to_release) : files_to_release[k] = f

\* The ended release-upload invocations of file f, as positions of the log.
UploadsOf(f) == { i \in 1..Len(log) : log[i].op = "upload" /\ log[i].files = <<f>> }

FailedUploadsOf(f) == { i \in UploadsOf(f) : log[i].code # 0 }

\* The release-upload invocations issued for file f.
IssuedUploadsOf(f) ==
    { i \in 1..Len(Issued) : Issued[i].op = "upload" /\ Issued[i].files = <<f>> }

\* The invocations carrying file f that the external client accepted.
AcceptedOf(f) == { i \in 1..Len(log) : log[i].code = 0 /\ InSeq(f, log[i].files) }

\* C1: in both per-file upload loops, a failed upload attempt of a file is
\* followed by another attempt of the same file only if its message carries
\* an authentication or permission indicator; any other failure ends the
\* loop at once with a failure result.
C1_RetryOnlyOnAuthIssue ==
    \A i \in 1..Len(log) :
        (log[i].op = "upload" /\ log[i].code = 1) =>
            /\ (\E j \in (i + 1)..Len(Issued) :
                    Issued[j].op = "upload" /\ Issued[j].files = log[i].files)
                 => log[i].msg = "auth"
            /\ log[i].msg = "other" =>
                 /\ \A j \in (i + 1)..Len(Issued) : Issued[j].op # "upload"
                 /\ pc \notin LoopPcs
                 /\ pc = "progress_returned" => exit_code # 0

\* The upload of the file of log[i] has failed definitively with log[i]: a
\* first attempt that failed without an authentication issue, or the third
\* failed attempt.
DefinitiveFailure(i) ==
    /\ log[i].op = "upload"
    /\ log[i].code = 1
    /\ LET f == log[i].files[1]
           before == { j \in FailedUploadsOf(f) : j < i }
       IN  \/ log[i].msg = "other" /\ { j \in UploadsOf(f) : j < i } = {}
           \/ Cardinality(before) = 2

\* C2: once the upload of a file F of the plan has failed definitively, no
\* later invocation of the run carries a file that comes after F in the plan.
C2_LaterFilesUnattempted ==
    \A i \in 1..Len(log) :
        DefinitiveFailure(i) =>
            \A j \in (i + 1)..Len(Issued) :
                \A g \in PlanFiles :
                    InSeq(g, Issued[j].files) =>
                        PositionInPlan(g) <= PositionInPlan(log[i].files[1])

\* C3: the single-invocation fallback is issued only when the creation of
\* the empty release failed, never after it succeeded.
C3_FallbackOnlyAfterFailedCreation ==
    \A i \in 1..Len(log) :
        log[i].by = Direct =>
            /\ \E j \in 1..(i - 1) :
                 log[j].by = Progress /\ log[j].op = "create" /\ log[j].code # 0
            /\ \A j \in 1..(i - 1) :
                 ~(log[j].by = Progress /\ log[j].op = "create" /\ log[j].code = 0)

\* The run has executed its command: a release-create or release-upload
\* invocation has been issued.
Executed == \E i \in 1..Len(log) : log[i].op \in {"create", "upload"}

\* C4: when a run ends in the success state, every file of the plan has
\* been accepted by the external client exactly once.
C4_EveryFileAcceptedOnce ==
    (pc = "done" /\ status = 0 /\ Executed) =>
        \A f \in PlanFiles : Cardinality(AcceptedOf(f)) = 1

\* C5: in both per-file upload loops at most three release-upload
\* invocations are issued for a file, and after the third failed attempt of
\* a file the loop is left with a failure result.
C5_AtMostThreeAttempts ==
    \A f \in PlanFiles :
        /\ Cardinality(IssuedUploadsOf(f)) <= 3
        /\ Cardinality(FailedUploadsOf(f)) >= 3 =>
             /\ pc \notin LoopPcs
             /\ pc = "progress_returned" => exit_code # 0
             /\ (pc = "done" /\ \A i \in 1..Len(log) : log[i].by # Direct)
                  => status = 1

C5_Witness ==
    /\ pc = "progress_returned"
    /\ \E f \in PlanFiles :
         /\ Cardinality(FailedUploadsOf(f)) = 3
         /\ PositionInPlan(f) = 2

\* The tag-existence checks of the upload-to-existing mode.
UploadModeViews ==
    { i \in 1..Len(log) :
        log[i].op = "view" /\ log[i].by \in {"main", "interactive_mode", Existing} }

C10_PlanNeverEmpty ==
    files_to_release = <<>> =>
        /\ pc \notin OrchestratorPcs
        /\ \A i \in 1..Len(Issued) : Issued[i].op \notin {"create", "upload"}
        /\ pc = "done" => status = 1

\* Images only, and the working directory holds archives but no image.
C10_Witness ==
    /\ pc = "done"
    /\ status = 1
    /\ files_to_release = <<>>
    /\ args.img
    /\ zip_files # <<>>
    /\ img_files = <<>>

\* The answers of the kind `prompt` that the step just taken read.
Answers(prompt) ==
    { inputs[i].text : i \in { j \in 1..Len(inputs) : inputs[j].prompt = prompt } }

\* C15 as stated: when the scan finds neither an archive nor an image, the
\* step that makes the scan ends the run with exit code 1, and up to the end
\* of the run no prompt state has been passed, no answer has been read and
\* the only invocations are the auth-status and repository-view checks.
C15_EmptyScanAbortsBeforePrompt ==
    [][(pc \in {"interactive_mode", "main_files"} /\ no_files_found) =>
          /\ pc' = "done"
          /\ status' = 1
          /\ asked' = <<>>
          /\ inputs' = <<>>
          /\ \A i \in 1..Len(log') : log'[i].op \in {"auth", "repo"}]_vars

\* C16 as stated: a run in which the user answers N to the final
\* confirmation ends with exit code 0, whatever the path.
C16_DeclineExitsZero ==
    (pc = "done" /\ No \in Answers("confirm")) => status = 0

\* C17 as stated: with --yes no step of the run asks for the confirmation of
\* the command, when a release is created and when --upload is given.
C17_YesNeverAsksConfirmation ==
    [][args.yes =>
          /\ Answers("confirm")' = {}
          /\ asked' # asked => asked'[Len(asked')] # "confirm"]_vars

\* The environment checks have failed: a check ended with an error, or the
\* user did not answer y to "Do you want to proceed anyway?".
EnvironmentCheckFailed ==
    \/ \E i \in 1..Len(log) : log[i].op \in {"auth", "repo"} /\ log[i].by # Progress
                                /\ log[i].code # 0
    \/ Answers("proceed") \ {Yes} # {}

\* C18: the first invocation of a run is the auth-status check and the
\* second the repository-view check; the script goes on to the command line
\* and the scan only after both have passed; when one fails or the user
\* declines to proceed, the run has ended with exit code 1, no other
\* invocation has been issued, no prompt state has been passed, and no tag
\* and no plan has been set.
C18_EnvironmentChecksFirst ==
    /\ Len(log) >= 1 => log[1].op = "auth" /\ log[1].by = "check_github_auth"
    /\ Len(log) >= 2 => /\ log[2].op = "repo"
                        /\ log[2].by = "check_repository_access"
                        /\ log[1].code = 0
    /\ Len(log) >= 3 => log[2].code = 0
    /\ pc \notin {"check_github_auth", "check_repository_access", "done"} =>
          Len(log) >= 2 /\ log[1].code = 0 /\ log[2].code = 0
    /\ EnvironmentCheckFailed =>
          /\ pc = "done"
          /\ status = 1
          /\ Len(log) <= 2
          /\ asked = <<>>
          /\ args = NoArgs
          /\ tag = <<>>
          /\ files_to_release = <<>>

\* The auth-status check passes, the token lacks the repo scope and the user
\* declines to proceed.
C18_Witness ==
    /\ pc = "done"
    /\ status = 1
    /\ Len(log) = 1
    /\ log[1].code = 0
    /\ inputs = <<Line("proceed", No)>>

\* The prompt state of the shell that a prompt of the script belongs to.
PromptState(name) ==
    CASE name = "action" -> "ChooseAction"
      [] name \in {"tag", "release", "correct_tag"} -> "ChooseTag"
      [] name = "title" -> "ChooseTitle"
      [] name = "notes" -> "ChooseNotes"
      [] name = "files" -> "ChooseFiles"
      [] name = "confirm" -> "Confirm"

ShellStates ==
    <<"ChooseAction", "ChooseTag", "ChooseTitle", "ChooseNotes", "ChooseFiles",
      "Confirm">>

\* The first release-create or release-upload invocation of the run.
FirstExecuted ==
    CHOOSE i \in 1..Len(log) :
        /\ log[i].op \in {"create", "upload"}
        /\ \A j \in 1..(i - 1) : log[j].op \notin {"create", "upload"}

\* C19 as stated: an interactive run that has issued a release-create or
\* release-upload invocation has passed through ChooseAction, ChooseTag,
\* ChooseTitle, ChooseNotes, ChooseFiles and Confirm, in this order.
C19_AllPromptStatesInOrder ==
    (Interactive /\ Executed) =>
        \E f \in [1..6 -> 1..Len(asked)] :
            /\ \A k \in 1..6 : PromptState(asked[f[k]]) = ShellStates[k]
            /\ \A k \in 1..5 : f[k] < f[k + 1]

\* C19 as amended: an interactive run that has issued a release-create
\* invocation has passed through the action menu, the tag, the title, the
\* notes, the file selection and the confirmation, in this order and
\* nothing else; one that has issued a release-upload invocation to an
\* existing release has passed through the action menu, the release menu,
\* the file selection and the confirmation, with the question for a
\* corrected tag before the confirmation when the tag looked like a file
\* name, and through no title and no notes prompt.
C19_PromptStatesPerPath ==
    (Interactive /\ Executed) =>
        IF log[FirstExecuted].by = Existing
        THEN asked \in { <<"action", "release", "files", "confirm">>,
                         <<"action", "release", "files", "correct_tag",
                           "confirm">> }
        ELSE asked = <<"action", "tag", "title", "notes", "files", "confirm">>

\* An interactive upload to an existing release whose first file was accepted.
C19_Witness ==
    /\ Interactive
    /\ Executed
    /\ log[FirstExecuted].by = Existing
    /\ log[FirstExecuted].code = 0
    /\ asked = <<"action", "release", "files", "confirm">>

\* C20 as stated: a step that reads an invalid answer leaves the script at
\* the same prompt: the action menu unless 1 or 2, the release menu unless a
\* listed number, the file-selection menu unless 1..4, the confirmation
\* unless Y or N, a tag prompt unless the tag is not empty, and a change
\* tag/title question unless Y or N.
C20_PromptsAdvanceOnValidAnswerOnly ==
    [][\A i \in 1..Len(inputs') :
          LET line == inputs'[i]
              valid ==
                  CASE line.prompt = "action" -> line.text \in {<<"1">>, <<"2">>}
                    [] line.prompt = "release" ->
                          line.text \in { Dec(k) : k \in 1..(Len(releases) + 1) }
                    [] line.prompt = "files" ->
                          line.text \in {<<"1">>, <<"2">>, <<"3">>, <<"4">>}
                    [] line.prompt = "confirm" -> line.text \in {Yes, No}
                    [] line.prompt \in {"tag", "release_tag", "correct_tag"} ->
                          line.text # <<>>
                    [] line.prompt \in {"change_tag", "change_title"} ->
                          line.text \in {Yes, No}
                    [] OTHER -> TRUE
          IN  ~valid => pc' = pc]_vars

\* C21 as stated: in Create mode an empty tag (none derived from the first
\* archive and none typed) ends the run with a failure: get_unique_tag is
\* never entered with an empty tag, and no release-view or release-create
\* invocation carries an empty tag.
C21_EmptyTagIsFatal ==
    /\ pc \in {"get_unique_tag", "get_unique_tag_loop"} => arg # <<>>
    /\ \A i \in 1..Len(Issued) :
         Issued[i].op \in {"view", "create"} => Issued[i].tag # <<>>
    /\ (pc = "done" /\ action_choice = "1" /\ tag = <<>>) => status = 1

\* A per-file upload loop has ended with success, every upload of the run
\* having been accepted at its first attempt.
LoopSucceededAtFirstAttempts ==
    /\ \/ pc = "progress_returned" /\ exit_code = 0
       \/ /\ pc = "done"
          /\ status = 0
          /\ \E i \in 1..Len(log) : log[i].by = Existing /\ log[i].op = "upload"
    /\ \A i \in 1..Len(log) : log[i].op = "upload" => log[i].code = 0

\* C23 as stated: when every upload of a per-file upload loop succeeds at
\* its first attempt, the loop ends with total_uploaded equal to the sum of
\* the sizes of the files of the plan.
C23_TotalIsPlanSize ==
    LoopSucceededAtFirstAttempts =>
        total_uploaded = total_size(files_to_release)

\* The size of the files of the plan that the external client has accepted
\* in a release-upload invocation of the log `l`.
RECURSIVE ConfirmedSize(_, _)
ConfirmedSize(files, l) ==
    IF files = <<>> THEN 0
    ELSE (IF \E i \in 1..Len(l) : /\ l[i].op = "upload"
                                  /\ l[i].files = <<Head(files)>>
                                  /\ l[i].code = 0
          THEN getsize(Head(files)) ELSE 0)
           + ConfirmedSize(Tail(files), l)

\* The progress line of a file never goes back, whatever the attempt.
FileProgressMonotone ==
    [][(percentage # -1 /\ percentage' # -1) => percentage' >= percentage]_vars

\* The overall figure of the completion lines never goes back.
OverallProgressMonotone ==
    \A k \in 1..Len(reports) : \A l \in k..Len(reports) :
        reports[k].uploaded <= reports[l].uploaded

\* A progress line shows less than 100% while the upload runs, and a
\* completion line counts only files whose upload was accepted: it shows
\* 100% or more only when every file was.
FullOnlyWhenConfirmed ==
    /\ pc \in {"progress_popen", "progress_poll"} => percentage < 1000
    /\ \A k \in 1..Len(reports) :
         /\ reports[k].uploaded <= ConfirmedSize(files_to_release, log)
         /\ overall_percentage(reports[k].uploaded, files_to_release) >= 1000
              => ConfirmedSize(files_to_release, log)
                   = total_size(files_to_release)

\* The overall figure never exceeds the size of the plan.
OverallWithinPlan ==
    \A k \in 1..Len(reports) :
        reports[k].uploaded <= total_size(files_to_release)

\* C24 as stated: reported progress never decreases, over a file (across
\* its attempts) and over the run; 100% or more is reported only after the
\* uploads it counts were accepted with exit code 0; the overall figure
\* never exceeds the size of the plan.
C24_ProgressMonotoneAndHonest ==
    /\ FileProgressMonotone
    /\ [](OverallProgressMonotone /\ FullOnlyWhenConfirmed /\ OverallWithinPlan)

\* The sizes of the files that the completion lines name.
RECURSIVE ReportedSize(_)
ReportedSize(lines) ==
    IF lines = <<>> THEN 0
    ELSE getsize(files_to_release[Head(lines).file]) + ReportedSize(Tail(lines))

\* C29 as stated: in both per-file upload loops a file gets its completion
\* line, and its size is added to total_uploaded, only once an upload of
\* that file has returned exit code 0, and at most once: never after a
\* failed attempt.
C29_CompletionOnlyAfterSuccess ==
    /\ \A k \in 1..Len(reports) :
         /\ \E i \in UploadsOf(files_to_release[reports[k].file]) :
              log[i].code = 0
         /\ \A l \in 1..Len(reports) :
              l # k => reports[l].file # reports[k].file
    /\ total_uploaded = ReportedSize(reports)
    /\ \A f \in PlanFiles :
         Cardinality({ k \in 1..Len(reports) :
                         files_to_release[reports[k].file] = f })
           <= Cardinality({ i \in UploadsOf(f) : log[i].code = 0 })

\* The positions of the log at which an upload process was killed on a user
\* interrupt.
Interrupted == { i \in 1..Len(log) : log[i].msg = "killed" }

\* C25: a user interrupt that arrives while create_release_with_progress
\* polls an upload process kills that process and makes the function return
\* a non-zero code; the function starts no further upload, neither of that
\* file nor of a later one.
C25_InterruptEndsLoop ==
    \A i \in Interrupted :
        /\ log[i].by = Progress /\ log[i].op = "upload"
        /\ process = NoProcess
        /\ pc \notin {"progress_popen", "progress_poll"}
        /\ pc = "progress_returned" => exit_code # 0
        /\ \A j \in (i + 1)..Len(Issued) : Issued[j].by # Progress

\* The first of two files was being uploaded when the interrupt arrived.
C25_Witness ==
    /\ pc = "progress_returned"
    /\ Interrupted = {Len(log)}
    /\ exit_code = 1
    /\ file_index = 1
    /\ Len(files_to_release) >= 2

\* A process is in flight only while the script polls it.
OneProcessInFlight == process # NoProcess => pc = "progress_poll"

\* Every invocation that carries files carries one file of the plan.
OneFilePerInvocation ==
    \A i \in 1..Len(Issued) :
        Issued[i].files # <<>> =>
            Len(Issued[i].files) = 1 /\ Issued[i].files[1] \in PlanFiles

\* A file is submitted only after the file before it in the plan was
\* accepted.
SubmittedInPlanOrder ==
    \A j \in 1..Len(Issued) :
        \A k \in 2..Len(files_to_release) :
            InSeq(files_to_release[k], Issued[j].files) =>
                \E i \in 1..(j - 1) :
                    /\ log[i].files = <<files_to_release[k - 1]>>
                    /\ log[i].code = 0

\* C26 as stated: file submission is sequential and unbatched: at most one
\* process is in flight, every invocation that transfers files carries one
\* file of the plan, and a file is first attempted only after the file
\* before it in the plan was accepted.
C26_SequentialUnbatched ==
    OneProcessInFlight /\ OneFilePerInvocation /\ SubmittedInPlanOrder

\* How many of --all, --img and --zip the command line sets.
FiltersSet(a) ==
    (IF a.all THEN 1 ELSE 0) + (IF a.img THEN 1 ELSE 0) + (IF a.zip THEN 1 ELSE 0)

\* C27 as stated: --all, --img and --zip exclude each other: the script
\* builds no plan from a command line that sets more than one of them.
C27_FiltersExcludeEachOther ==
    pc \in {"main_upload", "main_create"} => FiltersSet(args) <= 1

\* C30 as stated: once a user interrupt was caught during the upload of a
\* file, the run issues no further release-create or release-upload
\* invocation, does not enter the fallback, and ends with exit code 1.
C30_InterruptEndsRun ==
    \A i \in Interrupted :
        /\ \A j \in (i + 1)..Len(Issued) :
             Issued[j].op \notin {"create", "upload"}
        /\ pc # "create_release_with_direct_command"
        /\ pc = "done" => status = 1

\* The user chose "2. Upload to an existing release": the release list was
\* fetched, which only that choice does.
ChoseUploadToExisting ==
    \E i \in 1..Len(log) : log[i].by = "fetch_recent_releases"

\* C31 as stated: an interactive run in which the user chose action 2
\* issues no release-create invocation, whatever the release-list
\* invocation returns (an error and an empty list included).
C31_UploadChoiceNeverCreates ==
    ChoseUploadToExisting =>
        \A i \in 1..Len(Issued) : Issued[i].op # "create"

----------------------------------------------------------------------------
(* Properties of the selection planner, checked under SpecPlan *)

\* The checksum file name of an archive.
ChecksumOf(z) == z \o SuffixSha

\* How often file f is in the plan.
TimesInPlan(f) == Cardinality({ k \in 1..Len(files_to_release) :
                                   files_to_release[k] = f })

\* C11 as stated: in the plan the planner returns, every selected archive
\* whose checksum file exists is followed at once (at its index plus one) by
\* that checksum file.
C11_ChecksumRightAfterArchive ==
    pc = "plan_return" =>
        \A i \in 1..Len(files_to_release) :
            LET f == files_to_release[i] IN
            (InSeq(f, h.selected) /\ EndsWith(f, SuffixZip)
                /\ ChecksumOf(f) \in sha_files)
              => /\ i + 1 <= Len(files_to_release)
                 /\ files_to_release[i + 1] = ChecksumOf(f)

\* C12: a checksum file is in the plan exactly when its archive is selected
\* and the checksum file is in the scanned checksum list, and then once; the
\* plan is the selection followed by checksum files only.
C12_ChecksumIffSelectedAndScanned ==
    pc = "plan_return" =>
        /\ Len(files_to_release) >= Len(h.selected)
        /\ SubSeq(files_to_release, 1, Len(h.selected)) = h.selected
        /\ \A k \in (Len(h.selected) + 1)..Len(files_to_release) :
             \E z \in ZipUniverse : files_to_release[k] = ChecksumOf(z)
        /\ \A z \in ZipUniverse :
             TimesInPlan(ChecksumOf(z)) =
                 IF InSeq(z, h.selected) /\ ChecksumOf(z) \in sha_files
                 THEN 1 ELSE 0

\* Two archives selected, the checksum file of one of them exists.
C12_Witness ==
    /\ pc = "plan_return"
    /\ Len(zip_files) = 2
    /\ InSeq(zip_files[1], h.selected)
    /\ InSeq(zip_files[2], h.selected)
    /\ sha_files = {ChecksumOf(zip_files[2])}
    /\ TimesInPlan(ChecksumOf(zip_files[2])) = 1
    /\ Len(files_to_release) = Len(h.selected) + 1

\* A string of k zeros.
Zeros(k) == [j \in 1..k |-> "0"]

\* The token is a decimal numeral of the number i.
NamesNumber(token, i) ==
    \E k \in 0..Len(token) : token = Zeros(k) \o Dec(i)

\* The token is start-end for the numbers first and last.
NamesRange(token, first, last) ==
    \E p \in 1..Len(token) :
        /\ token[p] = "-"
        /\ NamesNumber(SubSeq(token, 1, p - 1), first)
        /\ NamesNumber(SubSeq(token, p + 1, Len(token)), last)

\* The 1-based numbers that the valid tokens of the selector name, for a
\* list of n files.
Named(tokens, n) ==
    { i \in 1..n :
        \E k \in 1..Len(tokens) :
            \/ NamesNumber(tokens[k], i)
            \/ \E first, last \in 1..n :
                  /\ first <= i /\ i <= last
                  /\ NamesRange(tokens[k], first, last) }

\* The sequence s lists the files of all_files with the numbers of `numbers`
\* in ascending order, each once.
ListsInOrder(s, all_files, numbers) ==
    /\ Len(s) = Cardinality(numbers)
    /\ \E f \in [1..Len(s) -> numbers] :
         /\ \A j \in 1..Len(s) : s[j] = all_files[f[j]]
         /\ \A j, k \in 1..Len(s) : j < k => f[j] < f[k]

C14_ManualFallsBackToAll ==
    (pc = "plan_return" /\ h.mode = "4"
        /\ Named(h.tokens, Len(zip_files) + Len(img_files)) = {}) =>
        /\ h.selected = zip_files \o img_files
        /\ files_to_release = select_files_for_release("1", <<>>)

\* Two tokens, none valid, over an archive and an image.
C14_Witness ==
    /\ pc = "plan_return"
    /\ h.mode = "4"
    /\ h.tokens = << <<"3", "-", "1">>, <<"5">> >>
    /\ Len(zip_files) = 1
    /\ Len(img_files) = 1
    /\ h.selected = <<zip_files[1], img_files[1]>>

----------------------------------------------------------------------------
(* Properties of get_unique_tag, checked under SpecTag *)

\* The tags viewed during the k-th resolver call, in order.
ProbesOfCall(k) ==
    LET from == h.marks[k] + 1
        to   == IF Len(h.marks) > k THEN h.marks[k + 1] ELSE Len(log)
    IN  [i \in 1..(to - from + 1) |-> log[from + i - 1].tag]

\* The candidates T-v{n}, n >= 2, one more than may exist remotely.
Candidates(t) == { VersionedTag(t, n) : n \in 2..(MaxVersion + 1) }

\* s before t when ordered by length and then lexicographically: the order
\* of the numbers n for the strings T-v{n}.
ShortLexLess(s, t) ==
    \/ Len(s) < Len(t)
    \/ Len(s) = Len(t) /\ StrLess(s, t)

\* C7: get_unique_tag(T) returns T when T is not an existing tag, and
\* otherwise T-v{n} for the smallest n >= 2 whose T-v{n} is not an existing
\* tag; it probes T, T-v2, T-v3, ... in this order and stops at the first
\* unused one, the result never exists remotely, and the loop counter never
\* passes the number of existing tags plus two (so the call terminates).
C7_SmallestUnusedVersion ==
    /\ pc = "get_unique_tag_loop" =>
          /\ version >= 2
          /\ version <= Cardinality(existing) + 2
          /\ \A m \in 2..(version - 1) : VersionedTag(arg, m) \in existing
    /\ Len(h.results) >= 1 =>
          LET T == h.input
              R == h.results[1]
              P == ProbesOfCall(1)
          IN  /\ R \notin existing
              /\ T \notin existing => R = T /\ P = <<T>>
              /\ T \in existing =>
                    \E n \in 2..(MaxVersion + 1) :
                        /\ R = VersionedTag(T, n)
                        /\ \A m \in 2..(n - 1) : VersionedTag(T, m) \in existing
                        /\ P = [i \in 1..n |->
                                  IF i = 1 THEN T ELSE VersionedTag(T, i)]

C7_Witness ==
    /\ Len(h.results) >= 1
    /\ h.input \in existing
    /\ h.results[1] = VersionedTag(h.input, 4)

\* C8 as stated: the result is T when T is absent, otherwise the
\* lexicographically first string T-v{n}, n >= 2, that is absent.
C8_LexicographicallyFirst ==
    Len(h.results) >= 1 =>
        LET T == h.input
            R == h.results[1]
        IN  /\ T \notin existing => R = T
            /\ T \in existing =>
                  /\ R \in Candidates(T) \ existing
                  /\ \A c \in Candidates(T) \ existing : ~StrLess(c, R)

\* C8 as amended: the result is T when T is absent, otherwise the absent
\* string T-v{n}, n >= 2, that is first when the candidates are ordered by
\* length and then lexicographically (the numeric order of n).
C8_ShortLexFirst ==
    Len(h.results) >= 1 =>
        LET T == h.input
            R == h.results[1]
        IN  /\ T \notin existing => R = T
            /\ T \in existing =>
                  /\ R \in Candidates(T) \ existing
                  /\ \A c \in Candidates(T) \ existing : ~ShortLexLess(c, R)

\* T-v2 .. T-v9 exist and the two-digit candidate T-v10 is returned.
C8_Witness ==
    /\ Len(h.results) >= 1
    /\ h.input \in existing
    /\ \A n \in 2..9 : VersionedTag(h.input, n) \in existing
    /\ VersionedTag(h.input, 11) \notin existing
    /\ h.results[1] = VersionedTag(h.input, 10)

\* C9: against an unchanged set of existing tags, two calls
\* get_unique_tag(T) return the same tag R, and get_unique_tag(R) returns R.
C9_DeterministicIdempotent ==
    Len(h.results) = 3 =>
        /\ h.results[2] = h.results[1]
        /\ h.results[3] = h.results[1]

C9_Witness ==
    /\ Len(h.results) = 3
    /\ h.results[1] = VersionedTag(h.input, 3)
    /\ h.results[3] = VersionedTag(h.input, 3)

----------------------------------------------------------------------------
(* Properties of the release notes, checked under SpecNotes *)

\* The lines of a text: the pieces between its line breaks.
RECURSIVE SplitLines(_)
SplitLines(s) ==
    IF ~InSeq("\n", s) THEN <<s>>
    ELSE LET p == CHOOSE i \in 1..Len(s) :
                     s[i] = "\n" /\ \A j \in 1..(i - 1) : s[j] # "\n"
         IN  <<SubSeq(s, 1, p - 1)>> \o SplitLines(SubSeq(s, p + 1, Len(s)))

\* The user supplied no note: no --notes flag, or a first answer that ends
\* the notes prompt.
NoNoteSupplied ==
    \/ h.given = <<>>
    \/ h.mode = "interactive" /\ (h.given[1] = <<>> \/ Lower(h.given[1]) = Done)

\* C22 as stated: the notes of the release-create command are one to five
\* lines, each starting with "- ", and are the placeholder line alone when
\* the user supplied no note, for notes typed and for notes given by flags.
C22_NotesOneToFiveBullets ==
    pc = "notes_return" =>
        LET lines == SplitLines(h.notes) IN
        /\ Len(lines) \in 1..5
        /\ \A i \in 1..Len(lines) :
             Len(lines[i]) >= 2 /\ SubSeq(lines[i], 1, 2) = <<"-", " ">>
        /\ NoNoteSupplied => h.notes = Placeholder

----------------------------------------------------------------------------
(* Properties of extract_tag_from_zip, checked under SpecName *)

\* The ends of the prefixes of `name` made of the text before the first
\* hyphen, a hyphen, any text, a hyphen and the whole run of digits after it.
TagPrefixEnds(name) ==
    LET hyphens == { i \in 1..Len(name) : name[i] = "-" } IN
    { e \in 1..Len(name) :
        \E f \in hyphens, g \in hyphens :
            /\ \A i \in hyphens : f <= i
            /\ f < g
            /\ g < e
            /\ \A k \in (g + 1)..e : IsDigit(name[k])
            /\ e = Len(name) \/ ~IsDigit(name[e + 1]) }

\* The shortest such prefix, <<>> when there is none.
ShortestTagPrefix(name) ==
    IF TagPrefixEnds(name) = {} THEN <<>>
    ELSE SubSeq(name, 1,
                CHOOSE e \in TagPrefixEnds(name) :
                    \A d \in TagPrefixEnds(name) : e <= d)

\* C28 as stated: extract_tag_from_zip is a function of the base name of
\* the path alone; it returns the shortest prefix of the base name made of
\* the text before the first hyphen, a hyphen, any text, a hyphen and the
\* whole run of digits that follows, and no tag exactly when the base name
\* has no such prefix; a tag is a prefix of the base name, not empty, that
\* ends in a digit.
C28_TagIsShortestPrefix ==
    pc = "name_return" =>
        LET name == basename(h.path) IN
        /\ h.first = h.second
        /\ h.first = extract_tag_from_zip(name)
        /\ h.first = ShortestTagPrefix(name)
        /\ h.first = <<>> <=> TagPrefixEnds(name) = {}
        /\ h.first # <<>> =>
             /\ Len(h.first) <= Len(name)
             /\ h.first = SubSeq(name, 1, Len(h.first))
             /\ IsDigit(h.first[Len(h.first)])

=============================================================================
